---- MODULE Spec2Model ----
(***************************************************************************)
(* The Lumis web client: the Syncing screen (web/src/pages/Syncing.jsx)    *)
(* and the Dashboard (web/src/pages/Dashboard.jsx), as state machines over  *)
(* the browser's event loop.  One action is one run-to-completion piece of  *)
(* JavaScript: a timer callback up to its first await, the continuation of  *)
(* an await, a click handler, together with the React effects its state     *)
(* updates trigger (an effect and its cleanup run with the render that      *)
(* follows the update).  The backend job, the network and the user are the  *)
(* environment: their steps are actions too.                                *)
(***************************************************************************)
EXTENDS Integers, Sequences, FiniteSets, TLC

VARIABLES
    route,          \* the router's current location: [path, project_id]
    beStatus,       \* backend job: its status field
    beLogs,         \* backend job: its log lines
    beCommit,       \* backend project row: last_commit
    synDef,         \* which definition of Syncing is running (1 or 2)
    synProjectId,   \* searchParams.get('project_id')
    synMounted,     \* the Syncing screen is mounted
    synInterval,    \* the polling interval exists (set, not yet cleared)
    synStatus,      \* useState status
    synPolls,       \* status requests in flight, in the order issued
    synTimers,      \* pending setTimeout(() => navigate('/dashboard')) callbacks
    synNavs,        \* history: navigate('/dashboard') calls made by the polling effect
    synSawCompleted,\* history: a response with status 'completed' was processed
    synHeldLate,    \* history: the held status came from a poll issued before
                    \* another poll whose response had already been applied
    synPollFailed,  \* history: a status request of this mount has failed
    dashDef,        \* which definition of Dashboard is running (1 or 2)
    dashMounted,    \* the Dashboard is mounted
    envSession,     \* the auth provider's session (Null: signed out)
    envProject,     \* id of the user's row in 'projects' (Null: no row)
    bootPc,         \* where boot() is: the await it is suspended at
    bootP,          \* boot's local p: the project row it read
    session,        \* useState session
    projectData,    \* useState projectData
    appState,       \* useState appState
    risks,          \* useState risks
    messages,       \* useState messages
    input,          \* useState input
    chatLoading,    \* useState chatLoading
    chatReq,        \* the POST /api/chat request in flight, if any
    thinkInterval,  \* the thinking-log interval exists
    thinkPolls,     \* thinking-log status requests in flight, in the order issued
    bootStatusAns,  \* history: how boot's status request ended
    bootNav,        \* history: the navigation boot made
    bootRisksReq,   \* history: boot issued the risks request
    chatBase,       \* history: messages up to the user's message of the last chat
    chatOutcome,    \* history: how the last chat request ended
    thinkFromStale, \* history: the bubble's thinkingText was set by a poll
                    \* issued while an earlier chat request was pending
    thinkLate,      \* history: since the last submission, a poll response that
                    \* carries a thought was processed while messages held no
                    \* thinking bubble
    chatInFlight,   \* history: POST /api/chat requests sent and not yet settled
    lastSubmit,     \* history: what handleChat did with the last submission
    repoUrl,        \* useState repoUrl
    ingestInFlight, \* POST /api/ingest requests sent and not yet settled
    ingestLast,     \* history: what handleIngest did last, and the project_id
                    \* of the response it handled
    hops,           \* history: how often the router has rendered one of the
                    \* two screens in place of what was shown
    visited         \* history: the path last asked of the router by the user

synVars == <<synDef, synProjectId, synMounted, synInterval, synStatus, synPolls,
             synTimers, synNavs, synSawCompleted, synHeldLate, synPollFailed>>
beVars == <<beStatus, beLogs, beCommit>>
dashVars == <<dashDef, dashMounted, envSession, envProject, bootPc, bootP, session,
              projectData, appState, risks, messages, input, chatLoading, chatReq,
              thinkInterval, thinkPolls, bootStatusAns, bootNav, bootRisksReq,
              chatBase, chatOutcome, thinkFromStale, thinkLate, chatInFlight, lastSubmit,
              repoUrl, ingestInFlight, ingestLast>>
chatHist == <<chatInFlight, lastSubmit>>
ingestVars == <<repoUrl, ingestInFlight, ingestLast>>
clientVars == <<route, synVars, dashVars, hops, visited>>
vars == <<beVars, clientVars>>

----------------------------------------------------------------------------
(* Bounds of the model *)

MaxLogs == 1
MaxInFlight == 2
MaxChats == 2
MaxIngests == 2
MaxHops == 3

----------------------------------------------------------------------------
(* Values *)

Null == "null"
SyncingProjectIds == {"p1"}

\* Text is a sequence of characters; "B" stands for the brain emoji.
LinePlain == <<"c">>
LineDone == <<"D", "O", "N", "E">>
LineThought == <<"B", " ", "t">>
SyncingLogLines == {LinePlain, LineDone}

\* String.prototype.includes
Includes(s, sub) ==
    \E i \in 1..(Len(s) - Len(sub) + 1) : SubSeq(s, i, i + Len(sub) - 1) = sub

Path(p) == [path |-> p, project_id |-> Null]

RemoveAt(seq, i) == SubSeq(seq, 1, i - 1) \o SubSeq(seq, i + 1, Len(seq))

IsSpace(c) == c = " "

\* String.prototype.trim
RECURSIVE TrimStart(_)
TrimStart(s) == IF s # <<>> /\ IsSpace(Head(s)) THEN TrimStart(Tail(s)) ELSE s
RECURSIVE TrimEnd(_)
TrimEnd(s) ==
    IF s # <<>> /\ IsSpace(s[Len(s)]) THEN TrimEnd(SubSeq(s, 1, Len(s) - 1)) ELSE s
Trim(s) == TrimEnd(TrimStart(s))

\* String.prototype.replace(pattern, '') with a string pattern: the first
\* occurrence only.
RemoveFirst(s, sub) ==
    IF Includes(s, sub)
    THEN LET i == CHOOSE k \in 1..(Len(s) - Len(sub) + 1) :
                    /\ SubSeq(s, k, k + Len(sub) - 1) = sub
                    /\ \A j \in 1..(k - 1) : SubSeq(s, j, j + Len(sub) - 1) # sub
         IN SubSeq(s, 1, i - 1) \o SubSeq(s, i + Len(sub), Len(s))
    ELSE s

Brain == <<"B">>
DashboardLogLines == {LinePlain, LineThought}

UserIds == {"u1"}
RepoUrl == <<"r">>
NoCommit == <<>>
CommitA == [i \in 1..8 |-> "a"]
CommitB == [i \in 1..8 |-> "b"]
Commits == {CommitA, CommitB}
NoProject == [id |-> Null, repo_url |-> <<>>, last_commit |-> NoCommit]
NoNav == Path("none")
Inputs == {<<>>, <<" ">>, <<"q">>}
Responses == {<<"a">>}
ErrorText == <<"Error: Could not reach Lumis Core.">>
RiskAnswers == {[status |-> "success", risks |-> <<"risk">>],
                [status |-> "error", risks |-> <<>>]}
NoChatReq == [pending |-> FALSE, query |-> <<>>]
NoOutcome == [kind |-> "none", response |-> <<>>]
TypedRepoUrl == <<"g">>
IngestProjectIds == {"p1"}
NoIngest == [did |-> "none", project_id |-> Null]

\* The Dashboard is not part of the run: nothing of it is mounted or pending.
DashboardAbsent ==
    /\ dashDef = 2
    /\ dashMounted = FALSE
    /\ envSession = Null
    /\ envProject = Null
    /\ bootPc = "done"
    /\ bootP = NoProject
    /\ session = Null
    /\ projectData = NoProject
    /\ appState = "LOADING"
    /\ risks = <<>>
    /\ messages = <<>>
    /\ input = <<>>
    /\ chatLoading = FALSE
    /\ chatReq = NoChatReq
    /\ thinkInterval = FALSE
    /\ thinkPolls = <<>>
    /\ bootStatusAns = "none"
    /\ bootNav = NoNav
    /\ bootRisksReq = FALSE
    /\ chatBase = <<>>
    /\ chatOutcome = NoOutcome
    /\ thinkFromStale = FALSE
    /\ thinkLate = FALSE
    /\ chatInFlight = 0
    /\ lastSubmit = "none"
    /\ repoUrl = <<>>
    /\ ingestInFlight = 0
    /\ ingestLast = NoIngest

----------------------------------------------------------------------------
(* The backend ingestion job, as seen through GET /api/ingest/status/<id> *)

BeSnapshot == [status |-> beStatus, logs |-> beLogs]

BeProcess ==
    /\ beStatus = "starting"
    /\ beStatus' = "processing"
    /\ UNCHANGED <<beLogs, beCommit, clientVars>>

BeLog(l) ==
    /\ Len(beLogs) < MaxLogs
    /\ beLogs' = Append(beLogs, l)
    /\ UNCHANGED <<beStatus, beCommit, clientVars>>

BeFinish(s) ==
    /\ beStatus = "processing"
    /\ beStatus' = s
    /\ UNCHANGED <<beLogs, beCommit, clientVars>>

----------------------------------------------------------------------------
(* Syncing *)

SynInitialStatus(def) ==
    IF def = 1 THEN [logs |-> <<>>, status |-> "processing"]
    ELSE [step |-> "Initializing", logs |-> <<>>, status |-> "processing"]

NewPoll == [served |-> FALSE, data |-> [status |-> "none", logs |-> <<>>], late |-> FALSE]

\* data.logs.some(l => l.includes('DONE'))
SomeDone(logs) == \E i \in 1..Len(logs) : Includes(logs[i], LineDone)

SynIsCompleteOrFailed(def, data) ==
    IF def = 1
    THEN data.status = "completed" \/ SomeDone(data.logs)
    ELSE data.status \in {"completed", "failed"}

\* The redirect condition of the interval callback.
SynIsComplete(def, data) ==
    IF def = 1
    THEN data.status = "completed" \/ SomeDone(data.logs)
    ELSE data.status = "completed"

SynIntervalKept(complete, interval) == interval

\* clearInterval(interval) in the completion branch.
SynIntervalAfterResponse(complete, interval) ==
    IF complete THEN FALSE ELSE interval

\* The effect's cleanup: return () => clearInterval(interval).
SynIntervalAfterCleanup(interval) == FALSE

SynTimersNotSet(complete, timers) == timers

\* setTimeout(() => navigate('/dashboard'), ...) in the completion branch.
SynTimersAfterResponse(complete, timers) ==
    IF complete THEN timers + 1 ELSE timers

SynIntervalWithoutGuard(projectId) == TRUE

\* The effect body on mount: if (!projectId) return; setInterval(...)
SynIntervalOnMount(projectId) == projectId # Null

\* The interval callback up to its first await: fetch(.../status/<projectId>).
SynTick ==
    /\ synInterval
    /\ Len(synPolls) < MaxInFlight
    /\ synPolls' = Append(synPolls, NewPoll)
    /\ UNCHANGED <<dashVars, hops, visited, route, beVars, synDef, synProjectId,
                   synMounted, synInterval, synStatus, synTimers, synNavs,
                   synSawCompleted, synHeldLate, synPollFailed>>

\* The backend answers a status request with the job as it is now.
SynServe(i) ==
    /\ i \in 1..Len(synPolls)
    /\ ~synPolls[i].served
    /\ synPolls' = [synPolls EXCEPT ![i].served = TRUE, ![i].data = BeSnapshot]
    /\ UNCHANGED <<dashVars, hops, visited, route, beVars, synDef, synProjectId,
                   synMounted, synInterval, synStatus, synTimers, synNavs,
                   synSawCompleted, synHeldLate, synPollFailed>>

\* The rest of the callback: after await fetch, await res.json().
SynRespond(i) ==
    /\ i \in 1..Len(synPolls)
    /\ synPolls[i].served
    /\ LET data == synPolls[i].data
           complete == SynIsComplete(synDef, data)
           marked == [j \in 1..Len(synPolls) |->
                        IF j < i THEN [synPolls[j] EXCEPT !.late = TRUE] ELSE synPolls[j]]
       IN /\ synStatus' = IF synMounted THEN data ELSE synStatus
          /\ synHeldLate' = IF synMounted THEN synPolls[i].late ELSE synHeldLate
          /\ synInterval' = SynIntervalAfterResponse(complete, synInterval)
          /\ synTimers' = SynTimersAfterResponse(complete, synTimers)
          /\ synSawCompleted' = (synSawCompleted \/ data.status = "completed")
          /\ synPolls' = RemoveAt(marked, i)
    /\ UNCHANGED <<dashVars, hops, visited, route, beVars, synDef, synProjectId,
                   synMounted, synNavs, synPollFailed>>

SynIntervalClearedOnFailure(interval) == FALSE

\* The catch block only logs: the interval is left as it is.
SynIntervalAfterFailure(interval) == interval

\* fetch or res.json() rejects: catch (e) { console.error(e) }
SynPollFail(i) ==
    /\ i \in 1..Len(synPolls)
    /\ synPolls' = RemoveAt(synPolls, i)
    /\ synInterval' = SynIntervalAfterFailure(synInterval)
    /\ synPollFailed' = TRUE
    /\ UNCHANGED <<dashVars, hops, visited, route, beVars, synDef, synProjectId,
                   synMounted, synStatus, synTimers, synNavs, synSawCompleted,
                   synHeldLate>>

\* A redirect timer expires: navigate('/dashboard').  The router leaves
\* /syncing, which unmounts the screen if it is still mounted.
SynTimerFire ==
    /\ synTimers > 0
    /\ synTimers' = synTimers - 1
    /\ synNavs' = synNavs + 1
    /\ route' = Path("/dashboard")
    /\ synMounted' = FALSE
    /\ synInterval' = IF synMounted THEN SynIntervalAfterCleanup(synInterval) ELSE synInterval
    /\ UNCHANGED <<dashVars, hops, visited, beVars, synDef, synProjectId, synStatus,
                   synPolls, synSawCompleted, synHeldLate, synPollFailed>>

\* The "Exit to Dashboard" button of the first definition:
\* onClick={() => navigate('/dashboard')}.
SynExit ==
    /\ synMounted
    /\ synDef = 1
    /\ route' = Path("/dashboard")
    /\ synMounted' = FALSE
    /\ synInterval' = SynIntervalAfterCleanup(synInterval)
    /\ UNCHANGED <<dashVars, hops, visited, beVars, synDef, synProjectId, synStatus,
                   synPolls, synTimers, synNavs, synSawCompleted, synHeldLate,
                   synPollFailed>>

\* The user leaves /syncing by the browser (back button, address bar).
SynLeave(to) ==
    /\ synMounted
    /\ route' = Path(to)
    /\ synMounted' = FALSE
    /\ synInterval' = SynIntervalAfterCleanup(synInterval)
    /\ UNCHANGED <<dashVars, hops, visited, beVars, synDef, synProjectId, synStatus,
                   synPolls, synTimers, synNavs, synSawCompleted, synHeldLate,
                   synPollFailed>>

\* The screen is entered for a job that has just been started: /syncing is
\* navigated to when POST /api/ingest was accepted, or when boot saw the job
\* 'starting' or 'processing'.
InitSyncing ==
    /\ beStatus = "starting"
    /\ beLogs = <<>>
    /\ beCommit = NoCommit
    /\ DashboardAbsent
    /\ synDef \in {1, 2}
    /\ synProjectId \in SyncingProjectIds \cup {Null}
    /\ route = [path |-> "/syncing", project_id |-> synProjectId]
    /\ synMounted = TRUE
    /\ synInterval = SynIntervalOnMount(synProjectId)
    /\ synStatus = SynInitialStatus(synDef)
    /\ synPolls = <<>>
    /\ synTimers = 0
    /\ synNavs = 0
    /\ synSawCompleted = FALSE
    /\ synHeldLate = FALSE
    /\ synPollFailed = FALSE
    /\ hops = 0
    /\ visited = "/syncing"

\* What happens while the user stays on the screen and its requests get
\* their answers.
NextSyncingStays ==
    \/ BeProcess
    \/ \E l \in SyncingLogLines : BeLog(l)
    \/ \E s \in {"completed", "failed"} : BeFinish(s)
    \/ SynTick
    \/ \E i \in 1..MaxInFlight : SynServe(i)
    \/ \E i \in 1..MaxInFlight : SynRespond(i)
    \/ SynTimerFire

NextSyncing ==
    \/ NextSyncingStays
    \/ \E i \in 1..MaxInFlight : SynPollFail(i)
    \/ SynExit
    \/ SynLeave("/")

\* One Syncing mount watching one ingestion job.
SpecSyncing == InitSyncing /\ [][NextSyncing]_vars

\* A Syncing mount the user does not leave: it is unmounted by nothing but
\* its own redirect.  The interval keeps ticking while it exists and an
\* expired timer runs; requests do not fail, they are served and answered.
FairSyncing ==
    /\ InitSyncing
    /\ [][NextSyncingStays]_vars
    /\ WF_vars(SynTick)
    /\ WF_vars(SynTimerFire)
    /\ SF_vars(\E i \in 1..MaxInFlight : SynServe(i))
    /\ SF_vars(\E i \in 1..MaxInFlight : SynRespond(i))

----------------------------------------------------------------------------
(* Claims about Syncing *)

\* C1: during one mount of the Syncing screen the polling effect calls
\* navigate('/dashboard') at most once.
C1_AtMostOneNavigate == synNavs <= 1

\* C2: after the Syncing screen has unmounted, nothing it started calls
\* navigate('/dashboard') any more.
C2_NoNavigateAfterUnmount == [][~synMounted => synNavs' = synNavs]_vars

\* C3: after the Syncing screen has unmounted, or after a response with
\* status 'completed' has been processed, no new status request is started.
C3_NoPollAfterStop ==
    [][(~synMounted \/ synSawCompleted) => Len(synPolls') <= Len(synPolls)]_vars

\* A completed response was processed on a mounted screen with room for
\* another request; and the interval that issued it is gone.
C3_Witness ==
    /\ synSawCompleted
    /\ synMounted
    /\ synProjectId # Null
    /\ Len(synPolls) < MaxInFlight

\* C4: the held status is always the response of the most recently issued
\* poll among the answered ones; an earlier poll's response is never applied
\* over a later poll's.
C4_HeldIsLatestAnswered == ~synHeldLate

\* C5: if the screen stays mounted with a project_id (it is unmounted by
\* nothing but its own redirect) and the backend eventually reports
\* 'completed' for good, the screen eventually calls navigate('/dashboard').
C5_CompletionRedirects ==
    ([]((synMounted \/ synNavs > 0) /\ synProjectId # Null)
        /\ <>[](beStatus = "completed"))
        => <>(synNavs > 0)

\* The redirect happened from a mounted screen of a completed job.
C5_Witness ==
    /\ synNavs > 0
    /\ beStatus = "completed"
    /\ synProjectId # Null
    /\ synSawCompleted

\* C19: a failed status request (fetch or its JSON decoding rejects) does
\* not disturb the screen: the held status is unchanged, no redirect is
\* scheduled or made, the interval is not cleared, and the next tick can
\* poll again.
C19_FailedPollUndisturbed ==
    [][(synPollFailed' /\ ~synPollFailed)
        => /\ synStatus' = synStatus
           /\ synTimers' = synTimers
           /\ synNavs' = synNavs
           /\ route' = route
           /\ synInterval' = synInterval
           /\ Len(synPolls') < MaxInFlight]_vars

\* The job is completed but the only request so far failed: the screen
\* still shows its initial status and its interval is still there.
C19_Witness ==
    /\ synPollFailed
    /\ synMounted
    /\ beStatus = "completed"
    /\ synStatus = SynInitialStatus(synDef)
    /\ synInterval
    /\ synTimers = 0
    /\ synNavs = 0
    /\ synPolls = <<>>

\* C20: the second definition stops polling only on completion or unmount:
\* as long as no response has said 'completed' (whatever else the status
\* was, 'failed' included) it has scheduled and made no redirect, and while
\* it is mounted with a project_id its interval exists.
C20_PollsUntilCompleted ==
    (synDef = 2 /\ ~synSawCompleted)
        => /\ synTimers = 0
           /\ synNavs = 0
           /\ (synMounted /\ synProjectId # Null) => synInterval

\* The job failed, the screen shows it, and a further request has been
\* issued since.
C20_Witness ==
    /\ synDef = 2
    /\ synMounted
    /\ beStatus = "failed"
    /\ synStatus.status = "failed"
    /\ synInterval
    /\ synTimers = 0
    /\ Len(synPolls) = 1

\* C21: without a project_id in the URL the screen is inert: it never
\* issues a status request, never schedules or makes a redirect, and its
\* status stays at the initial value (status 'processing', empty logs).
C21_InertWithoutProjectId ==
    synProjectId = Null
        => /\ ~synInterval
           /\ synPolls = <<>>
           /\ ~synPollFailed
           /\ synTimers = 0
           /\ synNavs = 0
           /\ synStatus = SynInitialStatus(synDef)
           /\ synStatus.status = "processing"
           /\ synStatus.logs = <<>>

\* The job has run to 'completed' with a line in its log, and the screen
\* opened without a project_id still sits there with its initial status.
C21_Witness ==
    /\ synProjectId = Null
    /\ synMounted
    /\ beStatus = "completed"
    /\ beLogs # <<>>
    /\ synStatus = SynInitialStatus(synDef)
    /\ synPolls = <<>>

----------------------------------------------------------------------------
(* Dashboard *)

\* More of the backend, seen from the Dashboard: a job is started or run
\* again (POST /api/ingest, the GitHub webhook), and a running job writes
\* the project row's last_commit.
BeStart ==
    /\ beStatus \in {"idle", "completed", "failed"}
    /\ beStatus' = "starting"
    /\ beLogs' = <<>>
    /\ UNCHANGED <<beCommit, clientVars>>

BeCommit(c) ==
    /\ beStatus = "processing"
    /\ c # beCommit
    /\ beCommit' = c
    /\ UNCHANGED <<beStatus, beLogs, clientVars>>

HasProject(pd) == pd.id # Null

SyncingRoute(id) == [path |-> "/syncing", project_id |-> id]

IsThinking(m) == "isThinking" \in DOMAIN m /\ m.isThinking

KeepsThinking(msgs) == msgs

\* prev.filter(m => !m.isThinking)
WithoutThinking(msgs) == SelectSeq(msgs, LAMBDA m : ~IsThinking(m))

\* Some message is a thinking bubble.
HasThinking(msgs) == \E i \in 1..Len(msgs) : IsThinking(msgs[i])

UserMsg(text) == [role |-> "user", content |-> text]
ThinkingBubble == [role |-> "lumis", content |-> <<"...">>, isThinking |-> TRUE]
LumisMsg(text) == [role |-> "lumis", content |-> text]

\* The repository form ("Activate Workspace") is what the component
\* returns while appState is 'NO_PROJECT'.
RepoFormShown == dashMounted /\ appState = "NO_PROJECT"

\* The chat shell is what the component returns once appState is neither
\* 'LOADING' nor 'NO_PROJECT'.
ChatViewShown == dashMounted /\ appState \notin {"LOADING", "NO_PROJECT"}

\* String.prototype.substring(0, n)
Substring0(text, n) == SubSeq(text, 1, IF Len(text) < n THEN Len(text) ELSE n)

\* CURRENT COMMIT: last_commit ? last_commit.substring(0, 7) : 'PENDING'
CommitText(commit) ==
    IF commit # <<>> THEN Substring0(commit, 7) ELSE <<"PENDING">>

CommitView(pd) == CommitText(pd.last_commit)

BootSyncsOnlyProcessing(status) == status = "processing"

\* boot: ['starting', 'processing'].includes(statusData.status)
BootShouldSync(status) == status \in {"starting", "processing"}

ThinkEffectIgnoresLoading(def, mounted, loading, pd) ==
    def = 2 /\ mounted /\ HasProject(pd)

\* The thinking-log effect of the second definition, with its cleanup: the
\* interval exists exactly while the effect's guard lets it.
ThinkEffect(def, mounted, loading, pd) ==
    def = 2 /\ mounted /\ loading /\ HasProject(pd)

\* A navigation away from /dashboard unmounts the Dashboard.
DashNavigate(to) ==
    /\ route' = to
    /\ dashMounted' = FALSE
    /\ thinkInterval' = ThinkEffect(dashDef, FALSE, chatLoading, projectData)

BootGoesOnWithoutSession(s) == "project"

\* Where boot goes after getSession: if (!s) { navigate('/login'); return; }
BootPcAfterSession(s) == IF s = Null THEN "done" ELSE "project"

\* boot, first await: supabase.auth.getSession()
BootSession ==
    /\ bootPc = "session"
    /\ bootPc' = BootPcAfterSession(envSession)
    /\ IF envSession = Null
       THEN /\ DashNavigate(Path("/login"))
            /\ bootNav' = Path("/login")
            /\ UNCHANGED session
       ELSE /\ session' = IF dashMounted THEN envSession ELSE session
            /\ UNCHANGED <<route, dashMounted, thinkInterval, bootNav>>
    /\ UNCHANGED <<beVars, synVars, hops, visited, thinkLate, ingestVars, chatHist,
                   dashDef, envSession, envProject, bootP, projectData, appState, risks,
                   messages, input, chatLoading, chatReq, thinkPolls, bootStatusAns,
                   bootRisksReq, chatBase, chatOutcome, thinkFromStale>>

\* boot, second await: the 'projects' row of the user, maybeSingle()
BootProject ==
    /\ bootPc = "project"
    /\ IF envProject # Null
       THEN LET p == [id |-> envProject, repo_url |-> RepoUrl, last_commit |-> beCommit]
            IN /\ bootP' = p
               /\ projectData' = IF dashMounted THEN p ELSE projectData
               /\ appState' = IF dashMounted THEN "READY" ELSE appState
               /\ bootPc' = IF dashDef = 2 THEN "status" ELSE "risks"
               /\ bootRisksReq' = (dashDef = 1)
       ELSE /\ appState' = IF dashMounted THEN "NO_PROJECT" ELSE appState
            /\ bootPc' = "done"
            /\ UNCHANGED <<bootP, projectData, bootRisksReq>>
    /\ UNCHANGED <<route, beVars, synVars, hops, visited, thinkLate, ingestVars,
                   chatHist, dashDef, dashMounted, envSession, envProject, session,
                   risks, messages, input, chatLoading, chatReq, thinkInterval,
                   thinkPolls, bootStatusAns, bootNav, chatBase, chatOutcome,
                   thinkFromStale>>

\* boot of the second definition, the status request answered.
BootStatus ==
    /\ bootPc = "status"
    /\ bootStatusAns' = beStatus
    /\ IF BootShouldSync(beStatus)
       THEN /\ DashNavigate(SyncingRoute(bootP.id))
            /\ bootNav' = SyncingRoute(bootP.id)
            /\ bootPc' = "done"
            /\ UNCHANGED bootRisksReq
       ELSE /\ bootPc' = "risks"
            /\ bootRisksReq' = TRUE
            /\ UNCHANGED <<route, dashMounted, thinkInterval, bootNav>>
    /\ UNCHANGED <<beVars, synVars, hops, visited, thinkLate, ingestVars, chatHist,
                   dashDef, envSession, envProject, bootP, session, projectData,
                   appState, risks, messages, input, chatLoading, chatReq, thinkPolls,
                   chatBase, chatOutcome, thinkFromStale>>

\* boot of the second definition, the status request or its JSON failed:
\* catch (e) {}
BootStatusFail ==
    /\ bootPc = "status"
    /\ bootStatusAns' = "failed request"
    /\ bootPc' = "risks"
    /\ bootRisksReq' = TRUE
    /\ UNCHANGED <<route, beVars, synVars, hops, visited, thinkLate, ingestVars,
                   chatHist, dashDef, dashMounted, envSession, envProject, bootP,
                   session, projectData, appState, risks, messages, input, chatLoading,
                   chatReq, thinkInterval, thinkPolls, bootNav, chatBase, chatOutcome,
                   thinkFromStale>>

\* boot, the risks request answered: if (d.status === 'success') setRisks(d.risks)
BootRisks(d) ==
    /\ bootPc = "risks"
    /\ risks' = IF dashMounted /\ d.status = "success" THEN d.risks ELSE risks
    /\ bootPc' = "done"
    /\ UNCHANGED <<route, beVars, synVars, hops, visited, thinkLate, ingestVars,
                   chatHist, dashDef, dashMounted, envSession, envProject, bootP,
                   session, projectData, appState, messages, input, chatLoading,
                   chatReq, thinkInterval, thinkPolls, bootStatusAns, bootNav,
                   bootRisksReq, chatBase, chatOutcome, thinkFromStale>>

\* boot, the risks request failed: catch(e) { console.error(...) }
BootRisksFail ==
    /\ bootPc = "risks"
    /\ bootPc' = "done"
    /\ UNCHANGED <<route, beVars, synVars, hops, visited, thinkLate, ingestVars,
                   chatHist, dashDef, dashMounted, envSession, envProject, bootP,
                   session, projectData, appState, risks, messages, input, chatLoading,
                   chatReq, thinkInterval, thinkPolls, bootStatusAns, bootNav,
                   bootRisksReq, chatBase, chatOutcome, thinkFromStale>>

\* The chat input: onChange={e => setInput(e.target.value)}
TypeInput(text) ==
    /\ ChatViewShown
    /\ text # input
    /\ input' = text
    /\ UNCHANGED <<route, beVars, synVars, hops, visited, thinkLate, ingestVars,
                   chatHist, dashDef, dashMounted, envSession, envProject, bootPc,
                   bootP, session, projectData, appState, risks, messages, chatLoading,
                   chatReq, thinkInterval, thinkPolls, bootStatusAns, bootNav,
                   bootRisksReq, chatBase, chatOutcome, thinkFromStale>>

ChatRejectedOnlyBlank(text, loading) == Trim(text) = <<>>

\* handleChat's guard: if (!input.trim() || chatLoading) return
ChatRejected(text, loading) == Trim(text) = <<>> \/ loading

\* handleChat, a submission the guard turns away: e.preventDefault(), return.
HandleChatRejected ==
    /\ ChatViewShown
    /\ ChatRejected(input, chatLoading)
    /\ lastSubmit' = "rejected"
    /\ UNCHANGED <<route, beVars, synVars, hops, visited, thinkLate, ingestVars,
                   dashDef, dashMounted, envSession, envProject, bootPc, bootP, session,
                   projectData, appState, risks, messages, input, chatLoading, chatReq,
                   thinkInterval, thinkPolls, bootStatusAns, bootNav, bootRisksReq,
                   chatBase, chatOutcome, thinkFromStale, chatInFlight>>

\* handleChat, a submission that passes the guard, up to await fetch.
HandleChat ==
    /\ ChatViewShown
    /\ ~ChatRejected(input, chatLoading)
    /\ Len(messages) + 2 <= 2 * MaxChats
    /\ messages' = Append(Append(messages, UserMsg(input)), ThinkingBubble)
    /\ input' = <<>>
    /\ chatLoading' = TRUE
    /\ chatReq' = [pending |-> TRUE, query |-> input]
    /\ thinkInterval' = ThinkEffect(dashDef, dashMounted, TRUE, projectData)
    /\ chatBase' = Append(messages, UserMsg(input))
    /\ chatOutcome' = NoOutcome
    /\ thinkFromStale' = FALSE
    /\ thinkLate' = FALSE
    /\ chatInFlight' = chatInFlight + 1
    /\ lastSubmit' = "accepted"
    /\ UNCHANGED <<route, beVars, synVars, hops, visited, ingestVars, dashDef,
                   dashMounted, envSession, envProject, bootPc, bootP, session,
                   projectData, appState, risks, thinkPolls, bootStatusAns, bootNav,
                   bootRisksReq>>

WithReplyFirst(msgs, reply) == <<LumisMsg(reply)>> \o WithoutThinking(msgs)

\* Replace Thinking Bubble with Answer: [...prev.filter(m => !m.isThinking),
\* { role: 'lumis', content }]
WithReply(msgs, reply) == Append(WithoutThinking(msgs), LumisMsg(reply))

ChatLoadingStuck(loading) == loading

\* handleChat: finally { setChatLoading(false) }
ChatLoadingAfterSettle(loading) == FALSE

\* What handleChat does once its request has settled with `reply`: replace
\* the thinking bubble by the reply, then the finally block.  A poll still
\* in flight now belongs to an earlier chat request.
ChatSettle(reply, outcome) ==
    /\ chatReq.pending
    /\ chatReq' = NoChatReq
    /\ chatOutcome' = outcome
    /\ messages' = IF dashMounted
                   THEN WithReply(messages, reply)
                   ELSE messages
    /\ chatLoading' = IF dashMounted THEN ChatLoadingAfterSettle(chatLoading) ELSE chatLoading
    /\ thinkInterval' = ThinkEffect(dashDef, dashMounted, chatLoading', projectData)
    /\ thinkPolls' = [j \in 1..Len(thinkPolls) |-> [thinkPolls[j] EXCEPT !.stale = TRUE]]
    /\ chatInFlight' = chatInFlight - 1
    /\ UNCHANGED <<route, beVars, synVars, hops, visited, thinkLate, ingestVars,
                   lastSubmit, dashDef, dashMounted, envSession, envProject, bootPc,
                   bootP, session, projectData, appState, risks, input, bootStatusAns,
                   bootNav, bootRisksReq, chatBase, thinkFromStale>>

\* handleChat after await fetch and await res.json(): the answer.
ChatRespond(r) == ChatSettle(r, [kind |-> "ok", response |-> r])

\* handleChat's catch: the request or its JSON decoding failed.
ChatFail == ChatSettle(ErrorText, [kind |-> "fail", response |-> <<>>])

\* The thinking-log interval callback up to its first await.
ThinkTick ==
    /\ thinkInterval
    /\ Len(thinkPolls) < MaxInFlight
    /\ thinkPolls' = Append(thinkPolls,
                            [served |-> FALSE, data |-> [status |-> "none", logs |-> <<>>],
                             stale |-> FALSE])
    /\ UNCHANGED <<route, beVars, synVars, hops, visited, thinkLate, ingestVars,
                   chatHist, dashDef, dashMounted, envSession, envProject, bootPc,
                   bootP, session, projectData, appState, risks, messages, input,
                   chatLoading, chatReq, thinkInterval, bootStatusAns, bootNav,
                   bootRisksReq, chatBase, chatOutcome, thinkFromStale>>

\* The backend answers a thinking-log request with the job as it is now.
ThinkServe(i) ==
    /\ i \in 1..Len(thinkPolls)
    /\ ~thinkPolls[i].served
    /\ thinkPolls' = [thinkPolls EXCEPT ![i].served = TRUE, ![i].data = BeSnapshot]
    /\ UNCHANGED <<route, beVars, synVars, hops, visited, thinkLate, ingestVars,
                   chatHist, dashDef, dashMounted, envSession, envProject, bootPc,
                   bootP, session, projectData, appState, risks, messages, input,
                   chatLoading, chatReq, thinkInterval, bootStatusAns, bootNav,
                   bootRisksReq, chatBase, chatOutcome, thinkFromStale>>

\* data.logs.filter(l => l.includes(brain)).pop(): <<>> stands for undefined.
LastThought(logs) ==
    LET thoughts == SelectSeq(logs, LAMBDA l : Includes(l, Brain))
    IN IF thoughts = <<>> THEN <<>> ELSE thoughts[Len(thoughts)]

\* lastThought.replace(brain, '').trim()
ThinkingText(thought) == Trim(RemoveFirst(thought, Brain))

WithThinkingTextOnAll(msgs, text) ==
    [j \in 1..Len(msgs) |->
        [f \in DOMAIN msgs[j] \cup {"thinkingText"} |->
            IF f = "thinkingText" THEN text ELSE msgs[j][f]]]

\* prev.map(m => m.isThinking ? { ...m, thinkingText } : m)
WithThinkingText(msgs, text) ==
    [j \in 1..Len(msgs) |->
        IF IsThinking(msgs[j])
        THEN [f \in DOMAIN msgs[j] \cup {"thinkingText"} |->
                 IF f = "thinkingText" THEN text ELSE msgs[j][f]]
        ELSE msgs[j]]

\* The rest of the thinking-log callback, after the awaits.
ThinkRespond(i) ==
    /\ i \in 1..Len(thinkPolls)
    /\ thinkPolls[i].served
    /\ LET data == thinkPolls[i].data
           thought == LastThought(data.logs)
           sets == Len(data.logs) > 0 /\ thought # <<>> /\ dashMounted
       IN /\ messages' = IF sets THEN WithThinkingText(messages, ThinkingText(thought))
                         ELSE messages
          /\ thinkFromStale' = IF sets /\ HasThinking(messages)
                               THEN thinkPolls[i].stale ELSE thinkFromStale
          /\ thinkLate' = (thinkLate \/ (sets /\ ~HasThinking(messages)))
    /\ thinkPolls' = RemoveAt(thinkPolls, i)
    /\ UNCHANGED <<route, beVars, synVars, hops, visited, ingestVars, chatHist, dashDef,
                   dashMounted, envSession, envProject, bootPc, bootP, session,
                   projectData, appState, risks, input, chatLoading, chatReq,
                   thinkInterval, bootStatusAns, bootNav, bootRisksReq, chatBase,
                   chatOutcome>>

\* The thinking-log request or its JSON failed: catch (e) { console.error(...) }
ThinkFail(i) ==
    /\ i \in 1..Len(thinkPolls)
    /\ thinkPolls' = RemoveAt(thinkPolls, i)
    /\ UNCHANGED <<route, beVars, synVars, hops, visited, thinkLate, ingestVars,
                   chatHist, dashDef, dashMounted, envSession, envProject, bootPc,
                   bootP, session, projectData, appState, risks, messages, input,
                   chatLoading, chatReq, thinkInterval, bootStatusAns, bootNav,
                   bootRisksReq, chatBase, chatOutcome, thinkFromStale>>

\* The user leaves /dashboard by the browser (back button, address bar).
DashLeave ==
    /\ dashMounted
    /\ DashNavigate(Path("/"))
    /\ UNCHANGED <<beVars, synVars, hops, visited, thinkLate, ingestVars, chatHist,
                   dashDef, envSession, envProject, bootPc, bootP, session, projectData,
                   appState, risks, messages, input, chatLoading, chatReq, thinkPolls,
                   bootStatusAns, bootNav, bootRisksReq, chatBase, chatOutcome,
                   thinkFromStale>>

\* The repository form's input: onChange={e => setRepoUrl(e.target.value)}
TypeRepoUrl(text) ==
    /\ RepoFormShown
    /\ text # repoUrl
    /\ repoUrl' = text
    /\ UNCHANGED <<route, beVars, synVars, hops, visited, thinkLate, chatHist, dashDef,
                   dashMounted, envSession, envProject, bootPc, bootP, session,
                   projectData, appState, risks, messages, input, chatLoading, chatReq,
                   thinkInterval, thinkPolls, bootStatusAns, bootNav, bootRisksReq,
                   chatBase, chatOutcome, thinkFromStale, ingestInFlight, ingestLast>>

\* handleIngest: const urlToUse = repoUrl || projectData?.repo_url
UrlToUse(url, pd) == IF url # <<>> THEN url ELSE pd.repo_url

IngestTargetOwnProject(data, pd) == SyncingRoute(pd.id)

\* handleIngest: navigate(`/syncing?project_id=${data.project_id}`)
IngestTarget(data, pd) == SyncingRoute(data.project_id)

\* handleIngest of the second definition up to await fetch: the button of
\* the repository form ("Begin Deep Analysis") or of the sidebar ("Force
\* Re-sync").
HandleIngest ==
    /\ dashDef = 2
    /\ RepoFormShown \/ ChatViewShown
    /\ IF UrlToUse(repoUrl, projectData) = <<>>
       THEN /\ ingestLast' = [did |-> "no url", project_id |-> Null]
            /\ UNCHANGED ingestInFlight
       ELSE /\ ingestInFlight < MaxIngests
            /\ ingestInFlight' = ingestInFlight + 1
            /\ UNCHANGED ingestLast
    /\ UNCHANGED <<route, beVars, synVars, hops, visited, thinkLate, chatHist, dashDef,
                   dashMounted, envSession, envProject, bootPc, bootP, session,
                   projectData, appState, risks, messages, input, chatLoading, chatReq,
                   thinkInterval, thinkPolls, bootStatusAns, bootNav, bootRisksReq,
                   chatBase, chatOutcome, thinkFromStale, repoUrl>>

\* handleIngest after the awaits, res.ok: navigate to the Syncing screen of
\* the project the response names.
IngestOk(data) ==
    /\ ingestInFlight > 0
    /\ ingestInFlight' = ingestInFlight - 1
    /\ ingestLast' = [did |-> "ok", project_id |-> data.project_id]
    /\ DashNavigate(IngestTarget(data, projectData))
    /\ UNCHANGED <<beVars, synVars, hops, visited, thinkLate, chatHist, dashDef,
                   envSession, envProject, bootPc, bootP, session, projectData,
                   appState, risks, messages, input, chatLoading, chatReq, thinkPolls,
                   bootStatusAns, bootNav, bootRisksReq, chatBase, chatOutcome,
                   thinkFromStale, repoUrl>>

\* What handleIngest does with a request that did not succeed: nothing
\* (!res.ok), or alert("Server connection failed.") in the catch.
IngestUnsuccessful(did) ==
    /\ ingestInFlight > 0
    /\ ingestInFlight' = ingestInFlight - 1
    /\ ingestLast' = [did |-> did, project_id |-> Null]
    /\ UNCHANGED <<route, beVars, synVars, hops, visited, thinkLate, chatHist, dashDef,
                   dashMounted, envSession, envProject, bootPc, bootP, session,
                   projectData, appState, risks, messages, input, chatLoading, chatReq,
                   thinkInterval, thinkPolls, bootStatusAns, bootNav, bootRisksReq,
                   chatBase, chatOutcome, thinkFromStale, repoUrl>>

\* handleIngest after the awaits, a response that is not OK.
IngestNotOk == IngestUnsuccessful("not ok")

\* handleIngest's catch: fetch or res.json() rejected.
IngestFail == IngestUnsuccessful("failed")

\* The Logout button: supabase.auth.signOut().then(() => navigate('/'))
Logout ==
    /\ ChatViewShown
    /\ envSession' = Null
    /\ DashNavigate(Path("/"))
    /\ UNCHANGED <<beVars, synVars, hops, visited, thinkLate, chatHist, ingestVars,
                   dashDef, envProject, bootPc, bootP, session, projectData, appState,
                   risks, messages, input, chatLoading, chatReq, thinkPolls,
                   bootStatusAns, bootNav, bootRisksReq, chatBase, chatOutcome,
                   thinkFromStale>>

\* The Syncing screen is not part of the run.
SyncingAbsent ==
    /\ synDef = 2
    /\ synProjectId = Null
    /\ synMounted = FALSE
    /\ synInterval = FALSE
    /\ synStatus = SynInitialStatus(2)
    /\ synPolls = <<>>
    /\ synTimers = 0
    /\ synNavs = 0
    /\ synSawCompleted = FALSE
    /\ synHeldLate = FALSE
    /\ synPollFailed = FALSE

InitDashboard ==
    /\ beStatus \in {"idle", "completed"}
    /\ beLogs = <<>>
    /\ beCommit = IF beStatus = "completed" THEN CommitA ELSE NoCommit
    /\ SyncingAbsent
    /\ route = Path("/dashboard")
    /\ dashDef \in {1, 2}
    /\ dashMounted = TRUE
    /\ envSession \in UserIds \cup {Null}
    /\ envProject \in {"p1", Null}
    /\ bootPc = "session"
    /\ bootP = NoProject
    /\ session = Null
    /\ projectData = NoProject
    /\ appState = "LOADING"
    /\ risks = <<>>
    /\ messages = <<>>
    /\ input = <<>>
    /\ chatLoading = FALSE
    /\ chatReq = NoChatReq
    /\ thinkInterval = FALSE
    /\ thinkPolls = <<>>
    /\ bootStatusAns = "none"
    /\ bootNav = NoNav
    /\ bootRisksReq = FALSE
    /\ chatBase = <<>>
    /\ chatOutcome = NoOutcome
    /\ thinkFromStale = FALSE
    /\ thinkLate = FALSE
    /\ chatInFlight = 0
    /\ lastSubmit = "none"
    /\ repoUrl = <<>>
    /\ ingestInFlight = 0
    /\ ingestLast = NoIngest
    /\ hops = 0
    /\ visited = "/dashboard"

NextDashboard ==
    \/ BeStart
    \/ BeProcess
    \/ \E l \in DashboardLogLines : BeLog(l)
    \/ \E s \in {"completed", "failed"} : BeFinish(s)
    \/ \E c \in Commits : BeCommit(c)
    \/ BootSession
    \/ BootProject
    \/ BootStatus
    \/ BootStatusFail
    \/ \E d \in RiskAnswers : BootRisks(d)
    \/ BootRisksFail
    \/ \E text \in {<<>>, TypedRepoUrl} : TypeRepoUrl(text)
    \/ HandleIngest
    \/ \E id \in IngestProjectIds : IngestOk([project_id |-> id])
    \/ IngestNotOk
    \/ IngestFail
    \/ Logout
    \/ DashLeave

\* One Dashboard mount from its first render: boot against a backend
\* whose job runs, finishes and is run again, with the buttons of the
\* views boot leads to.
SpecDashboard == InitDashboard /\ [][NextDashboard]_vars

\* Every await of boot settles.
FairDashboard ==
    /\ SpecDashboard
    /\ WF_vars(BootSession)
    /\ WF_vars(BootProject)
    /\ WF_vars(BootStatus \/ BootStatusFail)
    /\ WF_vars((\E d \in RiskAnswers : BootRisks(d)) \/ BootRisksFail)

\* The Dashboard after a boot that found a session and a project and ran
\* to its end: the chat shell is shown.
InitChat ==
    /\ beStatus \in {"idle", "completed"}
    /\ beLogs = <<>>
    /\ beCommit = IF beStatus = "completed" THEN CommitA ELSE NoCommit
    /\ SyncingAbsent
    /\ route = Path("/dashboard")
    /\ dashDef \in {1, 2}
    /\ dashMounted = TRUE
    /\ envSession \in UserIds
    /\ envProject = "p1"
    /\ bootPc = "done"
    /\ bootP = [id |-> envProject, repo_url |-> RepoUrl, last_commit |-> beCommit]
    /\ session = envSession
    /\ projectData = bootP
    /\ appState = "READY"
    /\ risks = <<>>
    /\ messages = <<>>
    /\ input = <<>>
    /\ chatLoading = FALSE
    /\ chatReq = NoChatReq
    /\ thinkInterval = FALSE
    /\ thinkPolls = <<>>
    /\ bootStatusAns = IF dashDef = 2 THEN beStatus ELSE "none"
    /\ bootNav = NoNav
    /\ bootRisksReq = TRUE
    /\ chatBase = <<>>
    /\ chatOutcome = NoOutcome
    /\ thinkFromStale = FALSE
    /\ thinkLate = FALSE
    /\ chatInFlight = 0
    /\ lastSubmit = "none"
    /\ repoUrl = <<>>
    /\ ingestInFlight = 0
    /\ ingestLast = NoIngest
    /\ hops = 0
    /\ visited = "/dashboard"

NextChat ==
    \/ \E l \in DashboardLogLines : BeLog(l)
    \/ \E text \in Inputs : TypeInput(text)
    \/ HandleChat
    \/ \E r \in Responses : ChatRespond(r)
    \/ ChatFail
    \/ ThinkTick
    \/ \E i \in 1..MaxInFlight : ThinkServe(i)
    \/ \E i \in 1..MaxInFlight : ThinkRespond(i)
    \/ \E i \in 1..MaxInFlight : ThinkFail(i)
    \/ DashLeave

\* The chat of a booted Dashboard; the backend writes its log while it
\* reasons.
SpecChat == InitChat /\ [][NextChat]_vars

\* The chat request settles: fetch resolves or rejects.
FairChat ==
    /\ SpecChat
    /\ WF_vars((\E r \in Responses : ChatRespond(r)) \/ ChatFail)

\* The same chat with the submissions the guard turns away: Send or Enter
\* on an empty input, or while the previous request is pending.
NextChatSubmit ==
    \/ NextChat
    \/ HandleChatRejected

SpecChatSubmit == InitChat /\ [][NextChatSubmit]_vars

----------------------------------------------------------------------------
(* The two screens under the router *)

\* <Route path="/syncing" element={<Syncing />} />: the router renders a
\* new Syncing for the location, once the requests of the mount before it
\* have settled.  Timers of that mount stay pending.
AppRenderSyncing ==
    /\ route.path = "/syncing"
    /\ ~synMounted
    /\ synPolls = <<>>
    /\ hops < MaxHops
    /\ hops' = hops + 1
    /\ synProjectId' = route.project_id
    /\ synMounted' = TRUE
    /\ synInterval' = SynIntervalOnMount(route.project_id)
    /\ synStatus' = SynInitialStatus(synDef)
    /\ synNavs' = 0
    /\ synSawCompleted' = FALSE
    /\ synHeldLate' = FALSE
    /\ synPollFailed' = FALSE
    /\ UNCHANGED <<route, visited, beVars, dashVars, synDef, synPolls, synTimers>>

\* <Route path="/dashboard" element={<Dashboard />} />: the router renders
\* a new Dashboard, whose boot effect starts.
AppRenderDashboard ==
    /\ route.path = "/dashboard"
    /\ ~dashMounted
    /\ bootPc = "done"
    /\ hops < MaxHops
    /\ hops' = hops + 1
    /\ dashMounted' = TRUE
    /\ bootPc' = "session"
    /\ bootP' = NoProject
    /\ session' = Null
    /\ projectData' = NoProject
    /\ appState' = "LOADING"
    /\ risks' = <<>>
    /\ messages' = <<>>
    /\ input' = <<>>
    /\ chatLoading' = FALSE
    /\ thinkInterval' = FALSE
    /\ repoUrl' = <<>>
    /\ bootStatusAns' = "none"
    /\ bootNav' = NoNav
    /\ bootRisksReq' = FALSE
    /\ UNCHANGED <<route, visited, beVars, synVars, chatHist, dashDef, envSession,
                   envProject, chatReq, thinkPolls, chatBase, chatOutcome,
                   thinkFromStale, thinkLate, ingestInFlight, ingestLast>>

\* The log of a job: up to MaxLogs lines.
JobLogs == UNION {[1..n -> SyncingLogLines] : n \in 0..MaxLogs}

\* A signed-in user with a project arrives at /dashboard or at
\* /syncing?project_id=<the project>, with the job in any state.
InitApp ==
    /\ beStatus \in {"idle", "starting", "processing", "completed", "failed"}
    /\ beLogs \in JobLogs
    /\ beCommit = NoCommit
    /\ hops = 0
    /\ route \in {Path("/dashboard"), SyncingRoute("p1")}
    /\ visited = route.path
    /\ dashDef \in {1, 2}
    /\ dashMounted = (route.path = "/dashboard")
    /\ envSession \in UserIds
    /\ envProject = "p1"
    /\ bootPc = IF dashMounted THEN "session" ELSE "done"
    /\ bootP = NoProject
    /\ session = Null
    /\ projectData = NoProject
    /\ appState = "LOADING"
    /\ risks = <<>>
    /\ messages = <<>>
    /\ input = <<>>
    /\ chatLoading = FALSE
    /\ chatReq = NoChatReq
    /\ thinkInterval = FALSE
    /\ thinkPolls = <<>>
    /\ bootStatusAns = "none"
    /\ bootNav = NoNav
    /\ bootRisksReq = FALSE
    /\ chatBase = <<>>
    /\ chatOutcome = NoOutcome
    /\ thinkFromStale = FALSE
    /\ thinkLate = FALSE
    /\ chatInFlight = 0
    /\ lastSubmit = "none"
    /\ repoUrl = <<>>
    /\ ingestInFlight = 0
    /\ ingestLast = NoIngest
    /\ synDef \in {1, 2}
    /\ synMounted = (route.path = "/syncing")
    /\ synProjectId = route.project_id
    /\ synInterval = (synMounted /\ SynIntervalOnMount(synProjectId))
    /\ synStatus = SynInitialStatus(synDef)
    /\ synPolls = <<>>
    /\ synTimers = 0
    /\ synNavs = 0
    /\ synSawCompleted = FALSE
    /\ synHeldLate = FALSE
    /\ synPollFailed = FALSE

\* The user does nothing and the job does not move: what runs is boot, the
\* polling of Syncing, and the router.
NextApp ==
    \/ BootSession
    \/ BootProject
    \/ BootStatus
    \/ BootStatusFail
    \/ \E d \in RiskAnswers : BootRisks(d)
    \/ BootRisksFail
    \/ SynTick
    \/ \E i \in 1..MaxInFlight : SynServe(i)
    \/ \E i \in 1..MaxInFlight : SynRespond(i)
    \/ \E i \in 1..MaxInFlight : SynPollFail(i)
    \/ SynTimerFire
    \/ AppRenderSyncing
    \/ AppRenderDashboard

SpecApp == InitApp /\ [][NextApp]_vars

RouteElementWithoutAuth(path) ==
    CASE path = "/" -> "Landing"
      [] path = "/login" -> "Auth"
      [] path = "/signup" -> "SignUp"
      [] path = "/dashboard" -> "Dashboard"
      [] path = "/syncing" -> "Syncing"
      [] OTHER -> "Navigate"

\* <Routes>: the element of the <Route> whose path the location matches;
\* path="*" matches what no other route does.
RouteElement(path) ==
    CASE path = "/" -> "Landing"
      [] path = "/login" -> "Auth"
      [] path = "/auth" -> "Auth"
      [] path = "/signup" -> "SignUp"
      [] path = "/dashboard" -> "Dashboard"
      [] path = "/syncing" -> "Syncing"
      [] OTHER -> "Navigate"

\* Where the router ends up for a path: <Navigate to="/" /> replaces the
\* location in the effect of the render that matched path="*".
ResolvePath(path) == IF RouteElement(path) = "Navigate" THEN "/" ELSE path

\* The paths a user asks for: the routes of the table, and one it lacks.
VisitPaths == {"/", "/login", "/auth", "/signup", "/dashboard", "/syncing",
               "/dashboard/x"}

\* The user goes to another path (a link, the back button): the router
\* resolves it and the screen that was shown unmounts.
AppVisit(path) ==
    /\ ResolvePath(path) # route.path
    /\ visited' = path
    /\ DashNavigate(Path(ResolvePath(path)))
    /\ synMounted' = FALSE
    /\ synInterval' = IF synMounted THEN SynIntervalAfterCleanup(synInterval)
                      ELSE synInterval
    /\ UNCHANGED <<beVars, hops, chatHist, ingestVars, dashDef, envSession, envProject,
                   bootPc, bootP, session, projectData, appState, risks, messages,
                   input, chatLoading, chatReq, thinkPolls, bootStatusAns, bootNav,
                   bootRisksReq, chatBase, chatOutcome, thinkFromStale, thinkLate,
                   synDef, synProjectId, synStatus, synPolls, synTimers, synNavs,
                   synSawCompleted, synHeldLate, synPollFailed>>

\* The screens under the router with a user who moves between the pages.
NextRoutes ==
    \/ NextApp
    \/ \E path \in VisitPaths : AppVisit(path)

\* The job is running or has finished when the page loads.
InitRoutes ==
    /\ InitApp
    /\ beStatus \in {"processing", "completed"}
    /\ beLogs = <<>>

SpecRoutes == InitRoutes /\ [][NextRoutes]_vars

----------------------------------------------------------------------------
(* Claims about the Dashboard *)

\* C6: boot of the second definition: a status answer 'starting' or
\* 'processing' makes boot navigate to /syncing?project_id=<the project's id>
\* and never issue the risks request; any other answer, or a failed status
\* request, makes boot issue the risks request and not navigate to /syncing.
C6_BootReconciles ==
    /\ bootStatusAns \in {"starting", "processing"}
         => (bootNav = SyncingRoute(envProject) /\ ~bootRisksReq)
    /\ bootStatusAns \notin {"none", "starting", "processing"}
         => (bootNav.path # "/syncing" /\ bootRisksReq)

\* Boot was answered 'starting' and went to the Syncing screen of the project.
C6_Witness ==
    /\ dashDef = 2
    /\ bootStatusAns = "starting"
    /\ bootPc = "done"
    /\ route = SyncingRoute("p1")

\* C7: whenever the backend job changes the project's last commit and then
\* stops changing it, the mounted Dashboard eventually displays that commit.
C7_CommitRefreshed ==
    \A c \in Commits :
        <>[](ChatViewShown /\ beCommit = c)
            => <>(ChatViewShown /\ CommitView(projectData) = CommitText(c))

\* C8: the thinkingText of a chat request's bubble is only ever set from a
\* status poll issued while that same chat request was pending.
C8_ThinkingTextFromOwnPoll == ~thinkFromStale

\* C9: a thinking-log request is started only while chatLoading is true, a
\* project is loaded and the Dashboard is mounted; once chatLoading is false
\* or the Dashboard has unmounted the interval is gone.
C9_ThinkPollingWhilePending ==
    /\ [](thinkInterval => (dashMounted /\ chatLoading /\ HasProject(projectData)))
    /\ [][Len(thinkPolls') > Len(thinkPolls)
            => (dashMounted /\ chatLoading /\ HasProject(projectData))]_vars

\* A chat has been answered while a thinking-log request of it is still in
\* flight: the interval is gone although there is room for another request.
C9_Witness ==
    /\ dashDef = 2
    /\ dashMounted
    /\ ~chatLoading
    /\ chatOutcome.kind # "none"
    /\ Len(thinkPolls) = 1
    /\ ~thinkInterval

\* The reply handleChat owes: the backend's response, or the error text.
ExpectedReply ==
    IF chatOutcome.kind = "ok" THEN chatOutcome.response ELSE ErrorText

\* The chat is released with exactly one reply after the user's message.
ChatReplied ==
    /\ ~chatLoading
    /\ chatOutcome.kind # "none"
    /\ ~HasThinking(messages)
    /\ messages = Append(chatBase, LumisMsg(ExpectedReply))
    /\ chatBase[Len(chatBase)].role = "user"

\* C10 as stated: every accepted chat submission gets exactly one reply
\* and releases the chat: once its request has settled, chatLoading is
\* false, the thinking bubble is gone and exactly one lumis message (the
\* response, or the error text) follows the user's message.
C10_ChatReplied == chatOutcome.kind # "none" => ChatReplied

\* C10 as amended: the same for a Dashboard that stays mounted until the
\* request has settled, and the request of a mounted Dashboard does settle
\* into that state.
C10_ChatRepliedWhileMounted ==
    /\ []((dashMounted /\ chatOutcome.kind # "none") => ChatReplied)
    /\ chatReq.pending ~> (ChatReplied \/ ~dashMounted)

\* A failed chat request was answered with the error text.
C10_Witness ==
    /\ dashMounted
    /\ ChatReplied
    /\ chatOutcome.kind = "fail"
    /\ Len(messages) = 2

\* C11: a submission made while chatLoading is true, or with an input that
\* is empty or only whitespace, changes nothing: messages, input and
\* chatLoading stay as they are and no request is sent; a request is sent
\* only by a submission that passes the guard, so at most one /api/chat
\* request is in flight at any time.
C11_SubmissionGuard ==
    /\ [](chatInFlight <= 1)
    /\ [][(lastSubmit' = "rejected" /\ lastSubmit # "rejected")
            => /\ ChatRejected(input, chatLoading)
               /\ UNCHANGED <<messages, input, chatLoading, chatReq, chatInFlight>>]_vars
    /\ [][chatInFlight' > chatInFlight => ~ChatRejected(input, chatLoading)]_vars

\* A typed question was submitted while the previous request was pending,
\* and turned away.
C11_Witness ==
    /\ lastSubmit = "rejected"
    /\ chatLoading
    /\ chatInFlight = 1
    /\ Trim(input) # <<>>
    /\ Len(messages) = 2

\* C12: when boot finds no session it navigates to /login and does nothing
\* else: it is over, no project was queried, no status or risks request was
\* issued, appState stays 'LOADING', projectData, risks and session stay at
\* their initial values, and neither the chat view nor the repository form
\* is shown.
C12_AuthGate ==
    /\ [][(bootPc = "session" /\ bootPc' # "session" /\ envSession = Null)
            => (bootNav' = Path("/login") /\ route' = Path("/login"))]_vars
    /\ [](bootNav = Path("/login")
            => /\ bootPc = "done"
               /\ bootP = NoProject
               /\ bootStatusAns = "none"
               /\ ~bootRisksReq
               /\ appState = "LOADING"
               /\ projectData = NoProject
               /\ risks = <<>>
               /\ session = Null
               /\ ~ChatViewShown
               /\ ~RepoFormShown)

\* A signed-out user who owns a project opened /dashboard and was sent to
\* /login.
C12_Witness ==
    /\ envSession = Null
    /\ envProject = "p1"
    /\ bootNav = Path("/login")
    /\ route = Path("/login")
    /\ bootPc = "done"

\* C13: handleIngest of the second definition sends no request and does
\* not navigate when neither the typed repoUrl nor projectData.repo_url is
\* non-empty; otherwise it sends one POST /api/ingest.  When the request
\* settles it navigates to /syncing?project_id=<project_id of the response>
\* if the response is OK; otherwise it does not navigate and leaves
\* appState, projectData, risks and messages unchanged.
C13_IngestOutcomes ==
    /\ [][(ingestLast'.did = "no url" /\ ingestLast.did # "no url")
            => /\ repoUrl = <<>> /\ projectData.repo_url = <<>>
               /\ ingestInFlight' = ingestInFlight
               /\ route' = route]_vars
    /\ [][ingestInFlight' > ingestInFlight
            => /\ repoUrl # <<>> \/ projectData.repo_url # <<>>
               /\ ingestInFlight' = ingestInFlight + 1
               /\ route' = route]_vars
    /\ [][ingestInFlight' < ingestInFlight
            => IF ingestLast'.did = "ok"
               THEN route' = SyncingRoute(ingestLast'.project_id)
               ELSE /\ ingestLast'.did \in {"not ok", "failed"}
                    /\ route' = route
                    /\ UNCHANGED <<appState, projectData, risks, messages>>]_vars

\* A user without a project typed a repository URL, began the analysis and
\* was taken to the Syncing screen of the project the backend created.
C13_Witness ==
    /\ dashDef = 2
    /\ appState = "NO_PROJECT"
    /\ projectData = NoProject
    /\ repoUrl = TypedRepoUrl
    /\ ingestLast = [did |-> "ok", project_id |-> "p1"]
    /\ route = SyncingRoute("p1")

\* C14: after the Dashboard has unmounted, the still-running boot of that
\* mount makes no navigation: a session, project or status answer that
\* arrives after the unmount calls neither navigate('/login') nor
\* navigate('/syncing?project_id=...').
C14_NoBootNavigateAfterUnmount == [][~dashMounted => bootNav' = bootNav]_vars

\* C15: with the backend job's status and logs held fixed, the two
\* screens do not redirect to each other in turn: once one screen has sent
\* the user to the other, that one does not send the user back, because no
\* backend state satisfies both redirect conditions.
C15_NoPingPong == hops <= 1

\* The messages without the thinkingText of their thinking bubbles.
WithoutThinkingText(msgs) ==
    [j \in 1..Len(msgs) |->
        IF IsThinking(msgs[j])
        THEN [f \in DOMAIN msgs[j] \ {"thinkingText"} |-> msgs[j][f]]
        ELSE msgs[j]]

\* C16: a thinking-log poll response processed when messages contains no
\* thinking bubble leaves messages unchanged; and in every case the end of
\* a poll changes only the thinkingText field of thinking bubbles, never
\* the number, order, role or content of messages.
C16_LateThinkingHarmless ==
    [][Len(thinkPolls') < Len(thinkPolls)
        => /\ WithoutThinkingText(messages') = WithoutThinkingText(messages)
           /\ ~HasThinking(messages) => messages' = messages]_vars

\* The answer was rendered, and then the response of a poll issued while
\* the request was pending was processed, with a thought in its log.
C16_Witness ==
    /\ thinkLate
    /\ dashMounted
    /\ ~chatLoading
    /\ chatOutcome.kind = "ok"
    /\ messages = Append(chatBase, LumisMsg(chatOutcome.response))

\* The positions of the thinking bubbles.
ThinkingAt(msgs) == {i \in 1..Len(msgs) : IsThinking(msgs[i])}

\* C17: in every reachable state messages contains at most one message
\* with isThinking, it is the last message when present, and whenever
\* chatLoading is false messages contains no thinking bubble.
C17_ThinkingBubble ==
    /\ Cardinality(ThinkingAt(messages)) <= 1
    /\ ThinkingAt(messages) \subseteq {Len(messages)}
    /\ ~chatLoading => ThinkingAt(messages) = {}

\* The second question's bubble under the first question and its answer,
\* with a thought shown in it.
C17_Witness ==
    /\ chatLoading
    /\ Len(messages) = 4
    /\ ThinkingAt(messages) = {4}
    /\ "thinkingText" \in DOMAIN messages[4]

\* The conversation: the messages that are not thinking bubbles.
Conversation == WithoutThinking(messages)

\* C18: the non-thinking messages are never removed or reordered, they
\* alternate user, lumis, user, lumis starting with a user message, and each
\* lumis message is appended directly after the user message whose request
\* produced it.
C18_ConversationShape ==
    /\ [][Len(Conversation) <= Len(Conversation')
            /\ SubSeq(Conversation', 1, Len(Conversation)) = Conversation]_vars
    /\ [](\A i \in 1..Len(Conversation) :
            Conversation[i].role = IF i % 2 = 1 THEN "user" ELSE "lumis")
    /\ [][(chatReq.pending /\ ~chatReq'.pending /\ dashMounted)
            => /\ Len(Conversation') = Len(Conversation) + 1
               /\ Conversation[Len(Conversation)] = UserMsg(chatReq.query)
               /\ Conversation'[Len(Conversation')].role = "lumis"
               /\ messages' = Conversation']_vars

\* Two questions: the first was answered, the second got the error text.
C18_Witness ==
    /\ dashMounted
    /\ messages = <<UserMsg(<<"q">>), LumisMsg(<<"a">>),
                    UserMsg(<<"q">>), LumisMsg(ErrorText)>>

\* The six paths of the route table.
TablePaths == {"/", "/login", "/auth", "/signup", "/dashboard", "/syncing"}

\* C22: the paths '/', '/login', '/auth', '/signup', '/dashboard' and
\* '/syncing' each render their own page ('/login' and '/auth' both render
\* Auth), every other path is redirected to '/', and so after any sequence
\* of navigations the current route is one of these six paths.
C22_RouteTable ==
    /\ [](route.path \in TablePaths)
    /\ [](RouteElement(route.path) =
            CASE route.path = "/" -> "Landing"
              [] route.path \in {"/login", "/auth"} -> "Auth"
              [] route.path = "/signup" -> "SignUp"
              [] route.path = "/dashboard" -> "Dashboard"
              [] route.path = "/syncing" -> "Syncing")
    /\ [][visited' # visited
            => route'.path = IF visited' \in TablePaths THEN visited' ELSE "/"]_vars

\* From one of the screens the user asked for a path the table lacks and
\* is on the landing page.
C22_Witness ==
    /\ visited = "/dashboard/x"
    /\ route = Path("/")
    /\ hops > 0

====
